---- MODULE Spec2Model ----
(***************************************************************************)
(* NutriVision (src/app.py): a Streamlit script that is re-executed from   *)
(* top to bottom on every interaction of a browser session.  The model     *)
(* has one action per kind of script run.  The database (tables users and  *)
(* history) is shared by all sessions; logged_in and username are the      *)
(* per-session st.session_state; clock is the wall clock behind            *)
(* datetime.now(); last is the transcript of the latest script run: the    *)
(* widget values it read, what it did and what it rendered.                *)
(*                                                                         *)
(*   users      rows of table users (lines 35-40), username PRIMARY KEY    *)
(*   history    rows of table history (lines 42-51), in insertion order    *)
(*   logged_in  st.session_state.logged_in of each session (97-98)         *)
(*   username   st.session_state.username of each session (99-100)         *)
(*   clock      index in Instants of the latest datetime.now() (210)       *)
(*   last       the latest run: sess, op (the button pressed), u and p     *)
(*              (the text inputs), uploaded (the file uploader), result    *)
(*              (what ai_analysis returned or AIError), ai / ins / sel     *)
(*              (the AI was called, a history row inserted, the history    *)
(*              queried), rows (what the query returned), msg (st.error /  *)
(*              st.success / st.warning), open (connections opened by the  *)
(*              run and not closed when it ended)                          *)
(***************************************************************************)
EXTENDS Integers, Sequences, FiniteSets, TLC

VARIABLES users, history, logged_in, username, clock, last

vars == <<users, history, logged_in, username, clock, last>>

(***************************************************************************)
(* Bounds and input domains.                                               *)
(***************************************************************************)
MaxHistory == 2

Sessions == {"s1", "s2"}

Usernames == {"", "a", "b"}

Passwords == {"", "pw"}

AIError == "<generate_content raised>"

SpecExample == "Grilled Chicken Bowl\nCalories: 550"

Texts == { SpecExample,
           "no numbers here",
           "Low calorie salad\nCALORIE - 120\ncalories: 9" }

\* Sample instants of the wall clock, in chronological order.
Instants == << [y |-> 2024, mo |-> 12, d |-> 20, h |-> 10, mi |-> 0],
               [y |-> 2025, mo |-> 1,  d |-> 15, h |-> 9,  mi |-> 0],
               [y |-> 2025, mo |-> 2,  d |-> 1,  h |-> 8,  mi |-> 0] >>

(***************************************************************************)
(* Characters and strings.                                                 *)
(***************************************************************************)
Char(t, i) == SubSeq(t, i, i)

UpperCase == "ABCDEFGHIJKLMNOPQRSTUVWXYZ"

LowerCase == "abcdefghijklmnopqrstuvwxyz"

Digits == "0123456789"

\* re.I: letters compare by their lower-case form.
Lower(c) ==
    IF \E k \in 1..26 : Char(UpperCase, k) = c
    THEN Char(LowerCase, CHOOSE k \in 1..26 : Char(UpperCase, k) = c)
    ELSE c

IsSpace(c) == c \in {" ", "\n", "\t"}

IsDigit(c) == \E k \in 1..10 : Char(Digits, k) = c

DigitVal(c) == (CHOOSE k \in 1..10 : Char(Digits, k) = c) - 1

RECURSIVE ToInt(_)
\* int(m.group(1)) on a run of decimal digits.
ToInt(ds) ==
    IF Len(ds) = 0 THEN 0
    ELSE 10 * ToInt(SubSeq(ds, 1, Len(ds) - 1)) + DigitVal(Char(ds, Len(ds)))

\* First index j >= i of t that holds no whitespace (Len(t)+1 at the end): \s*
SkipSpaces(t, i) ==
    CHOOSE j \in i..(Len(t) + 1) :
        /\ \A k \in i..(j - 1) : IsSpace(Char(t, k))
        /\ (j = Len(t) + 1 \/ ~IsSpace(Char(t, j)))

\* First index j >= i of t that holds no digit (Len(t)+1 at the end): \d+
SkipDigits(t, i) ==
    CHOOSE j \in i..(Len(t) + 1) :
        /\ \A k \in i..(j - 1) : IsDigit(Char(t, k))
        /\ (j = Len(t) + 1 \/ ~IsDigit(Char(t, j)))

\* The literal lit (lower case) stands at index i of t, ignoring case.
MatchLit(t, i, lit) ==
    /\ i + Len(lit) - 1 <= Len(t)
    /\ \A k \in 1..Len(lit) : Lower(Char(t, i + k - 1)) = Char(lit, k)

\* calorie[s]?\s*[:\-]?\s*(\d+) anchored at index i: the span <<from, to>> of
\* group 1, or <<0, 0>> when the pattern does not match there.
CalorieMatchAt(t, i) ==
    IF ~MatchLit(t, i, "calorie") THEN <<0, 0>>
    ELSE LET a == i + 7
             b == IF a <= Len(t) /\ Lower(Char(t, a)) = "s" THEN a + 1 ELSE a
             c == SkipSpaces(t, b)
             d == IF c <= Len(t) /\ Char(t, c) \in {":", "-"} THEN c + 1 ELSE c
             e == SkipSpaces(t, d)
             f == SkipDigits(t, e)
         IN  IF f > e THEN <<e, f - 1>> ELSE <<0, 0>>

\* extract_calories: re.search takes the leftmost match; 0 without a match.
extract_calories(text) ==
    LET hits == {i \in 1..Len(text) : CalorieMatchAt(text, i) # <<0, 0>>}
    IN  IF hits = {} THEN 0
        ELSE LET i == CHOOSE i \in hits : \A j \in hits : i <= j
                 g == CalorieMatchAt(text, i)
             IN  ToInt(SubSeq(text, g[1], g[2]))

\* result.split("\n")[0]
FirstLine(text) ==
    LET nl == {i \in 1..Len(text) : Char(text, i) = "\n"}
    IN  IF nl = {} THEN text
        ELSE SubSeq(text, 1, (CHOOSE i \in nl : \A j \in nl : i <= j) - 1)

\* hashlib.sha256(p.encode()).hexdigest(), tabulated on Passwords.
hash_pass(p) ==
    CASE p = ""   -> "e3b0c44298fc1c149afbf4c8996fb92427ae41e4649b934ca495991b7852b855"
      [] p = "pw" -> "30c952fab122c3f9759f02a6d95c3758b246b4fee239957b2d4fee46e26170c4"

(***************************************************************************)
(* Timestamps: strftime("%d-%m-%Y %H:%M") and SQLite's TEXT ordering.      *)
(***************************************************************************)
Pad2(n) == Char(Digits, (n \div 10) + 1) \o Char(Digits, (n % 10) + 1)

Pad4(n) == Pad2(n \div 100) \o Pad2(n % 100)

FormatDate(t) ==
    Pad2(t.d) \o "-" \o Pad2(t.mo) \o "-" \o Pad4(t.y) \o " " \o
    Pad2(t.h) \o ":" \o Pad2(t.mi)

\* The characters of a timestamp in increasing byte order.
ByteOrder == " -0123456789:"

Byte(c) == CHOOSE k \in 1..Len(ByteOrder) : Char(ByteOrder, k) = c

\* a < b under the BINARY collation (memcmp, the shorter string first on a tie).
TextLess(a, b) ==
    \E i \in 1..Len(b) :
        /\ \A k \in 1..(i - 1) : k <= Len(a) /\ Char(a, k) = Char(b, k)
        /\ (i > Len(a) \/ Byte(Char(a, i)) < Byte(Char(b, i)))

(***************************************************************************)
(* The script's runs.                                                      *)
(***************************************************************************)
NoRun ==
    [sess |-> "", op |-> "none", u |-> "", p |-> "", uploaded |-> FALSE,
     result |-> "", ai |-> FALSE, ins |-> FALSE, sel |-> FALSE, rows |-> <<>>,
     msg |-> "", open |-> 0]

Run(s, op) == [NoRun EXCEPT !.sess = s, !.op = op]

Init ==
    /\ users = {}
    /\ history = <<>>
    /\ logged_in = [s \in Sessions |-> FALSE]
    /\ username = [s \in Sessions |-> ""]
    /\ clock = 1
    /\ last = NoRun

\* Variant: the authentication page is shown to every session.
AnonymousShownToAll(s) == TRUE

\* if not st.session_state.logged_in: the authentication page is shown.
Anonymous(s) == ~logged_in[s]

\* Variant: no st.stop() at the end of the authentication page.
PastStopMissing(s) == TRUE

\* st.stop() ends the run of a session that is not logged in; only a logged-in
\* session's run gets past it, to the main page.
PastStop(s) == logged_in[s]

\* SELECT password FROM users WHERE username=?
FindUser(u) == {r \in users : r.username = u}

\* Variant: the login accepts any password of an existing user.
CredentialsMatchAnyPassword(u, p) == \E r \in users : r.username = u

\* r = cur.fetchone(); r and r[0] == hash_pass(p)
CredentialsMatch(u, p) ==
    /\ FindUser(u) # {}
    /\ (CHOOSE r \in FindUser(u) : TRUE).password = hash_pass(p)

\* Variant: the users table has no PRIMARY KEY.
InsertUserNoKey(nu, h) ==
    [ok |-> TRUE, users |-> users \cup {[username |-> nu, password |-> h]}]

\* INSERT INTO users VALUES (?,?) on a table whose username is PRIMARY KEY: the
\* insert raises when a row with that username exists.
InsertUser(nu, h) ==
    IF FindUser(nu) # {}
    THEN [ok |-> FALSE, users |-> users]
    ELSE [ok |-> TRUE, users |-> users \cup {[username |-> nu, password |-> h]}]

\* Variant: the history query has no WHERE clause.
SelectedAll(h, u) == DOMAIN h

\* WHERE username=?
Selected(h, u) == {i \in DOMAIN h : h[i].username = u}

\* The timestamps datetime.now().strftime(...) can produce, by instant.
Stamp == [t \in DOMAIN Instants |-> FormatDate(Instants[t])]

\* a < b on the date column's values, as SQLite compares them.
DateLess == [a \in {Stamp[t] : t \in DOMAIN Stamp}, b \in {Stamp[t] : t \in DOMAIN Stamp} |->
                TextLess(a, b)]

\* ORDER BY date DESC on a TEXT column; rows of equal date come in any order.
OrderedDesc(h, f) ==
    \A i, j \in DOMAIN f : i < j => ~DateLess[h[f[i]].date, h[f[j]].date]

\* SELECT date, meal, calories FROM history WHERE username=? ORDER BY date DESC:
\* the results cur.fetchall() may return.
HistoryQuery(h, u) ==
    LET sel == Selected(h, u)
        n == Cardinality(sel)
        orders == {f \in [1..n -> sel] :
                      /\ \A i, j \in 1..n : i # j => f[i] # f[j]
                      /\ OrderedDesc(h, f)}
    IN  {[i \in 1..n |-> [date |-> h[f[i]].date, meal |-> h[f[i]].meal,
                          calories |-> h[f[i]].calories]] : f \in orders}

\* Login button: on success the session is bound to u and st.rerun() runs the
\* script again, now past the authentication page, down to the history view.
Login(s, u, p) ==
    /\ Anonymous(s)
    /\ IF CredentialsMatch(u, p)
       THEN /\ logged_in' = [logged_in EXCEPT ![s] = TRUE]
            /\ username' = [username EXCEPT ![s] = u]
            /\ \E rows \in HistoryQuery(history, u) :
                  last' = [Run(s, "login") EXCEPT !.u = u, !.p = p,
                                                  !.sel = TRUE, !.rows = rows]
       ELSE /\ UNCHANGED <<logged_in, username>>
            /\ last' = [Run(s, "login") EXCEPT !.u = u, !.p = p,
                                               !.msg = "Invalid credentials"]
    /\ UNCHANGED <<users, history, clock>>

\* Create Account button: the except branch is entered from cur.execute, before
\* con.commit(); con.close().
CreateAccount(s, nu, np) ==
    /\ Anonymous(s)
    /\ LET res == InsertUser(nu, hash_pass(np))
       IN  /\ users' = res.users
           /\ last' = [Run(s, "create") EXCEPT
                         !.u = nu, !.p = np,
                         !.msg = IF res.ok THEN "Account created" ELSE "Username exists",
                         !.open = IF res.ok THEN 0 ELSE 1]
    /\ UNCHANGED <<history, logged_in, username, clock>>

\* What the Analyse Food handler derives from the AI text r:
\* calories = extract_calories(result) and result.split("\n")[0].
Derived == [r \in Texts \cup {AIError} |->
               [meal |-> FirstLine(r), calories |-> extract_calories(r)]]

\* Variant: the whole AI text is stored as the meal label.
NewEntryWholeText(s, r, t) ==
    [id |-> Len(history) + 1,
     username |-> username[s],
     date |-> Stamp[t],
     meal |-> r,
     calories |-> Derived[r].calories,
     details |-> r]

\* The row the Analyse Food handler inserts for AI text r at instant t.
NewEntry(s, r, t) ==
    [id |-> Len(history) + 1,
     username |-> username[s],
     date |-> Stamp[t],
     meal |-> Derived[r].meal,
     calories |-> Derived[r].calories,
     details |-> r]

\* Variant: a failure of the AI call is swallowed and its text stored.
AnalysePathSwallowed(uploaded, r) ==
    [ai |-> uploaded,
     ins |-> uploaded,
     aborted |-> FALSE,
     msg |-> IF uploaded THEN "" ELSE "Upload image first"]

\* The path the Analyse Food handler takes: uploaded or not, and the AI call
\* returning text or raising (nothing catches it, so the run ends there).
AnalysePath(uploaded, r) ==
    [ai |-> uploaded,
     ins |-> uploaded /\ r # AIError,
     aborted |-> uploaded /\ r = AIError,
     msg |-> IF uploaded THEN "" ELSE "Upload image first"]

\* Analyse Food button, followed (unless the run was aborted) by the history view.
AnalyseFood(s, uploaded, r, t) ==
    /\ PastStop(s)
    /\ LET path == AnalysePath(uploaded, r)
       IN  /\ path.ins => Len(history) < MaxHistory
           /\ history' = IF path.ins THEN Append(history, NewEntry(s, r, t))
                         ELSE history
           /\ clock' = IF path.ins THEN t ELSE clock
           /\ \E rows \in (IF path.aborted THEN {<<>>}
                           ELSE HistoryQuery(history', username[s])) :
                 last' = [Run(s, "analyse") EXCEPT
                            !.uploaded = uploaded, !.result = r,
                            !.ai = path.ai, !.ins = path.ins,
                            !.sel = ~path.aborted, !.rows = rows,
                            !.msg = path.msg]
    /\ UNCHANGED <<users, logged_in, username>>

\* A run of a logged-in session with no button pressed: the history view.
View(s) ==
    /\ PastStop(s)
    /\ \E rows \in HistoryQuery(history, username[s]) :
          last' = [Run(s, "view") EXCEPT !.sel = TRUE, !.rows = rows]
    /\ UNCHANGED <<users, history, logged_in, username, clock>>

\* One script run of some session, its widget values drawn from U (user names),
\* P (passwords) and T (what the AI call returns), the clock read in 1..n.
Step(U, P, T, n) ==
    \E s \in Sessions :
        \/ \E u \in U, p \in P : Login(s, u, p)
        \/ \E nu \in U, np \in P : CreateAccount(s, nu, np)
        \/ AnalyseFood(s, FALSE, "", clock)
        \/ \E r \in T \cup {AIError}, t \in clock..n : AnalyseFood(s, TRUE, r, t)
        \/ View(s)

\* Accounts in full (the empty user name and password included), one AI text.
Next == Step(Usernames, Passwords, {SpecExample}, 1)

Spec == Init /\ [][Next]_vars

\* Two accounts, every AI text, a clock that crosses the turn of the year.
NextHistory == Step({"a", "b"}, {"pw"}, Texts, Len(Instants))

SpecHistory == Init /\ [][NextHistory]_vars

(***************************************************************************)
(* Properties.                                                             *)
(***************************************************************************)

\* C1: while a session is anonymous, no run of it calls the AI, inserts a
\* history row or reads history rows; its runs are the login lookup and the
\* account-creation insert only.
C1_AnonymousGated ==
    \A s \in Sessions :
        (~logged_in[s] /\ last.sess = s) =>
            /\ ~last.ai /\ ~last.ins /\ ~last.sel
            /\ last.rows = <<>>
            /\ last.op \in {"login", "create"}

\* An anonymous session's login is rejected while the database holds history
\* of another session.
C1_Witness ==
    /\ last.op = "login"
    /\ ~logged_in[last.sess]
    /\ history # <<>>

\* C2: a login (u, p) of an anonymous session binds the session to u when a
\* users row for u stores hash(p); otherwise the session stays anonymous, its
\* username is unchanged and "Invalid credentials" is reported.
C2_Login ==
    [][ last'.op = "login" =>
          LET s == last'.sess
              u == last'.u
              p == last'.p
          IN  /\ ~logged_in[s]
              /\ IF \E row \in users : row.username = u /\ row.password = hash_pass(p)
                 THEN logged_in'[s] /\ username'[s] = u
                 ELSE /\ ~logged_in'[s]
                      /\ username'[s] = username[s]
                      /\ last'.msg = "Invalid credentials" ]_vars

\* A session has just logged in as "a" while the other one is still anonymous.
C2_Witness ==
    /\ last.op = "login"
    /\ logged_in[last.sess]
    /\ username[last.sess] = "a"
    /\ last.u = "a"
    /\ \E s \in Sessions : ~logged_in[s]

\* C3: the users table never holds two rows of one username; registering an
\* existing username reports "Username exists" and leaves the table as it was;
\* registering a new one adds its row, whose hash a lookup then returns.
C3_Register ==
    [][ /\ \A r1, r2 \in users' : r1.username = r2.username => r1 = r2
        /\ last'.op = "create" =>
             LET u == last'.u
                 p == last'.p
             IN  IF \E row \in users : row.username = u
                 THEN users' = users /\ last'.msg = "Username exists"
                 ELSE /\ users' = users \cup {[username |-> u, password |-> hash_pass(p)]}
                      /\ last'.msg = "Account created"
                      /\ {row.password : row \in {x \in users' : x.username = u}}
                            = {hash_pass(p)} ]_vars

\* Two usernames are registered and a registration of one of them, with another
\* password than the stored one, has just been rejected.
C3_Witness ==
    /\ last.op = "create"
    /\ last.msg = "Username exists"
    /\ Cardinality(users) >= 2
    /\ \E row \in users : row.username = last.u /\ row.password # hash_pass(last.p)

\* The columns the history view shows of row i of the history table.
Shown(i) ==
    [date |-> history[i].date, meal |-> history[i].meal,
     calories |-> history[i].calories]

\* C4: the rows a history view lists are exactly the rows of the session's
\* username, each as often as the table holds it: none of another user, none
\* of the user's left out.
C4_OwnRowsOnly ==
    last.sel =>
        LET own == {i \in DOMAIN history : history[i].username = username[last.sess]}
        IN  /\ Len(last.rows) = Cardinality(own)
            /\ \A k \in DOMAIN last.rows : \E i \in own : last.rows[k] = Shown(i)
            /\ \A i \in own :
                  Cardinality({k \in DOMAIN last.rows : last.rows[k] = Shown(i)})
                     = Cardinality({j \in own : Shown(j) = Shown(i)})

\* A view lists a row while the table holds another user's row of the same date.
C4_Witness ==
    /\ last.sel
    /\ last.rows # <<>>
    /\ \E i \in DOMAIN history :
          /\ history[i].username # username[last.sess]
          /\ history[i].date = last.rows[1].date

\* m is the text of r before its first line break (all of r when it has none).
IsFirstLineOf(m, r) ==
    /\ Len(m) <= Len(r)
    /\ SubSeq(r, 1, Len(m)) = m
    /\ \A k \in 1..Len(m) : Char(m, k) # "\n"
    /\ (Len(m) = Len(r) \/ Char(r, Len(m) + 1) = "\n")

\* extract_calories on each text the AI call can return.
CaloriesOf == [r \in Texts |-> extract_calories(r)]

\* C5: an analysis by a session logged in as u, with an image and the AI
\* returning r, appends exactly one history row, with username u, meal the
\* first line of r, calories extract_calories(r) and details r, and keeps the
\* rows stored before.
C5_AnalysisAppends ==
    [][ (last'.op = "analyse" /\ last'.uploaded /\ last'.result \in Texts) =>
          LET s == last'.sess
              r == last'.result
              new == history'[Len(history')]
          IN  /\ logged_in[s]
              /\ Len(history') = Len(history) + 1
              /\ SubSeq(history', 1, Len(history)) = history
              /\ new.username = username[s]
              /\ IsFirstLineOf(new.meal, r)
              /\ new.calories = CaloriesOf[r]
              /\ new.details = r
              /\ (r = SpecExample =>
                    new.meal = "Grilled Chicken Bowl" /\ new.calories = 550)
              /\ last'.ai /\ last'.ins ]_vars

\* The example of the specification has just been stored after another user's row.
C5_Witness ==
    /\ last.op = "analyse"
    /\ last.ins
    /\ last.result = SpecExample
    /\ Len(history) = 2
    /\ history[2].meal = "Grilled Chicken Bowl"
    /\ history[2].calories = 550
    /\ history[2].details = SpecExample
    /\ history[1].username # history[2].username

\* C6: an analysis without an uploaded image warns, calls no AI and writes
\* nothing; an analysis whose AI call fails inserts no history row.
C6_NoWriteOnFailure ==
    [][ (last'.op = "analyse" /\ (~last'.uploaded \/ last'.result = AIError)) =>
          /\ history' = history
          /\ ~last'.ins
          /\ (~last'.uploaded => ~last'.ai /\ last'.msg = "Upload image first") ]_vars

\* The AI call of an analysis has just failed while history rows exist.
C6_Witness ==
    /\ last.op = "analyse"
    /\ last.uploaded
    /\ last.result = AIError
    /\ last.ai
    /\ history # <<>>

\* A stored "DD-MM-YYYY HH:MM" timestamp read back as year, month, day, hour, minute.
ParseDate(d) ==
    << ToInt(SubSeq(d, 7, 10)), ToInt(SubSeq(d, 4, 5)), ToInt(SubSeq(d, 1, 2)),
       ToInt(SubSeq(d, 12, 13)), ToInt(SubSeq(d, 15, 16)) >>

\* Instant a is chronologically before instant b.
Earlier(a, b) ==
    \E i \in 1..5 : a[i] < b[i] /\ \A k \in 1..(i - 1) : a[k] = b[k]

\* C7: the history view shows the user's entries most recent first: no entry is
\* shown before an entry whose timestamp is chronologically later.
C7_MostRecentFirst ==
    last.sel =>
        \A i, j \in DOMAIN last.rows :
            i < j => ~Earlier(ParseDate(last.rows[i].date), ParseDate(last.rows[j].date))

\* C8: once a session is logged in it stays logged in, under the same username.
C8_AuthenticatedTerminal ==
    [][ \A s \in Sessions :
          logged_in[s] => logged_in'[s] /\ username'[s] = username[s] ]_vars

\* Both sessions are logged in, under different usernames, and an analysis has
\* run since the second login.
C8_Witness ==
    /\ \A s \in Sessions : logged_in[s]
    /\ \E s, t \in Sessions : username[s] # username[t]
    /\ last.op = "analyse"
    /\ history # <<>>

\* C9: no row of the users table has the empty username.
C9_NonEmptyUsername == \A row \in users : row.username # ""

\* C10: no run ends with a database connection it opened still open.
C10_ConnectionsClosed == last.open = 0

====
